---- MODULE Spec2Model ----
(***************************************************************************)
(* Background task scheduler of backend/services/task_processor.py.        *)
(*                                                                         *)
(* The TaskProcessor runs on one asyncio event loop.  Every coroutine of   *)
(* the module talks to the store through the synchronous supabase client,  *)
(* so the only points where a coroutine really suspends are the            *)
(* asyncio.sleep calls: the poll loop's sleep(poll_interval) and the       *)
(* sleeps inside the handlers.  Between two suspension points a coroutine  *)
(* runs atomically.  The model keeps the event loop's FIFO queue of ready  *)
(* callbacks ("ready"): asyncio.create_task, Task.cancel on a sleeping     *)
(* task, an expired timer and an arriving request each append one entry,   *)
(* and the loop always runs the entry at the head.                         *)
(***************************************************************************)
EXTENDS Integers, Sequences, FiniteSets, TLC

(* ---------------------------------------------------------------- bounds *)
NumTasks == 2        \* task rows that are ever created
NumTasksCap == 3     \* the same, where the concurrency cap is exercised
MaxTime == 2         \* the clock runs 0..MaxTime
MaxRetriesArg == 1   \* create_task draws max_retries from 0..MaxRetriesArg
MaxPriorityArg == 2  \* create_task draws priority from 1..MaxPriorityArg
MaxExecs == 4        \* asyncio Task objects of _execute_task alive at once
MaxLoops == 2        \* _poll_loop coroutines alive at once
\* self.max_concurrent_tasks (5 in the source), scaled down so that the cap
\* is reached with the rows of NumTasks and passed with NumTasksCap
MaxConcurrentTasks == 2

(* ------------------------------------------------------ program constants *)
\* timedelta(days=7) of the retention sweep, in clock units of the model.
RetentionWindow == 1

Ids == 1..NumTasksCap
Users == {"u1", "u2"}
\* the users create_task is called by in the model
Owners == {"u1"}
Times == 0..MaxTime
NoTime == -1
Slots == 1..MaxExecs

PENDING == "pending"
RUNNING == "running"
COMPLETED == "completed"
FAILED == "failed"
CANCELLED == "cancelled"
TaskStatus == {PENDING, RUNNING, COMPLETED, FAILED, CANCELLED}
TerminalStatus == {COMPLETED, FAILED, CANCELLED}

TaskType == {"organize", "search", "cleanup", "folder_operation", "backup", "analysis"}
\* task types create_task draws from in the model
CreatedTypes == {"folder_operation"}

\* error_message values
NoMessage == "none"
RetryMessage == "Retry n/max: error"
ErrorMessage == "error"
TaskWasCancelled == "Task was cancelled"
CancelledByUser == "Cancelled by user"

\* The progress values a handler writes, one before each of its sleeps.
HandlerProgress(type) ==
    CASE type = "organize" -> <<10, 30, 60, 80, 95>>
      [] type = "search" -> <<20, 50, 80>>
      [] type = "cleanup" -> <<15, 35, 55, 75, 90>>
      [] type = "folder_operation" -> <<25, 75>>
      [] type = "backup" -> <<10, 40, 80>>
      [] type = "analysis" -> <<20, 50, 80>>

VARIABLES
    db,            \* the tasks table: task id -> row, for the rows that exist
    nextId,        \* number of rows created so far (ids are never reused)
    now,           \* the clock (datetime.utcnow())
    max_concurrent_tasks, \* TaskProcessor.max_concurrent_tasks
    running,       \* TaskProcessor.running
    active_tasks,  \* TaskProcessor.active_tasks, a dict in insertion order
    execs,         \* asyncio Tasks running _execute_task: slot -> frame
    loops,         \* _poll_loop coroutines: loop id -> "ready" | "sleeping"
    ready,         \* the event loop's FIFO queue of ready callbacks
    attempts,      \* history: task id -> number of _run_task_by_type calls
    accepted,      \* history: task id -> status cancel_task found when it returned True
    returned       \* what the cancel_task call of the last step returned, if it was one

vars == <<db, nextId, now, max_concurrent_tasks, running, active_tasks, execs, loops, ready, attempts, accepted, returned>>


(* ------------------------------------------------------------- the store *)
\* supabase.table("tasks").update(fields).eq("id", t): no row, no change.
Update(d, t, fields) ==
    IF t \in DOMAIN d THEN [d EXCEPT ![t] = fields @@ @] ELSE d

\* _update_task_status: the status and the extra fields in one update.
UpdateTaskStatus(d, t, status, updates) ==
    Update(d, t, updates @@ [status |-> status])

\* _update_task_progress
UpdateTaskProgress(d, t, progress) ==
    Update(d, t, [progress |-> progress])

\* _add_task_log: read the row's logs, write them back with one more entry.
AddTaskLog(d, t, message) ==
    LET current_logs == IF t \in DOMAIN d THEN d[t].logs ELSE <<>>
    IN Update(d, t, [logs |-> Append(current_logs, message)])

\* The row create_task inserts.
NewTask(user, type, priority, max_retries, created_at) ==
    [user_id |-> user, type |-> type, status |-> PENDING, progress |-> 0,
     result |-> FALSE, error_message |-> NoMessage, logs |-> <<>>,
     priority |-> priority, retry_count |-> 0, max_retries |-> max_retries,
     created_at |-> created_at, started_at |-> NoTime, completed_at |-> NoTime]

(* ------------------------------------------------- the event loop's queue *)
\* An entry of the queue: the step of an executor or of a poll loop.  joined
\* says that the entry was appended by the same callback as the entry before
\* it, so that no other callback can have been queued between the two.
Handle(kind, n, joined) == [kind |-> kind, n |-> n, joined |-> joined]

IsHandle(h, kind, n) == h.kind = kind /\ h.n = n

InReady(rdy, kind, n) == \E i \in 1..Len(rdy) : IsHandle(rdy[i], kind, n)

\* loop.call_soon by the running callback, which appended `own` entries before
CallSoon(q, kind, n) ==
    [q EXCEPT !.ready = Append(@, Handle(kind, n, q.own > 0)), !.own = @ + 1]

\* an entry appended by the event loop itself (a timer that expired)
TimerFired(rdy, kind, n) == Append(rdy, Handle(kind, n, FALSE))

\* A coroutine outside the model (a request handler) can be the next callback
\* to run exactly when it can have been queued in front of the head entry,
\* and no callback is in the middle of its step.
CanRunCall ==
    IF ready = <<>> THEN TRUE
    ELSE /\ ~Head(ready).joined
         /\ ~(Head(ready).kind = "exec" /\ execs[Head(ready).n].pc = "raised")

\* faulty variant: the asyncio task is not cancelled when its id is dropped
TaskCancelForgotten(st, e) == st

\* asyncio.Task.cancel() on the executor in slot e.  A finished task is left
\* alone.  Otherwise the task is marked; a task waiting in a sleep has the
\* sleep's future cancelled, which schedules its wakeup; a task whose step is
\* already scheduled keeps its place in the queue.
TaskCancel(st, e) ==
    IF e \notin DOMAIN st.execs THEN st
    ELSE LET marked == [st EXCEPT !.execs[e].must_cancel = TRUE]
         IN IF InReady(st.ready, "exec", e) THEN marked ELSE CallSoon(marked, "exec", e)

(* ------------------------------------------------------- active_tasks dict *)
ActiveIds(active) == {active[i].id : i \in 1..Len(active)}
ActiveTask(active, t) ==
    LET i == CHOOSE i \in 1..Len(active) : active[i].id = t IN active[i].task
\* del self.active_tasks[t]
Del(active, t) == SelectSeq(active, LAMBDA a : a.id # t)

FreeSlots(ex) == Slots \ DOMAIN ex
MinOf(S) == CHOOSE x \in S : \A y \in S : x <= y
\* a function without its value at x
Without(f, x) == [y \in DOMAIN f \ {x} |-> f[y]]


(* --------------------------------------------------------- the dispatcher *)
Pending(d) == {t \in DOMAIN d : d[t].status = PENDING}

\* faulty variant: the select orders by age alone
SortsBeforeByAge(d, a, b) == d[a].created_at < d[b].created_at

\* order("priority", desc=True).order("created_at", desc=False): a sorts
\* strictly before b.
SortsBefore(d, a, b) ==
    \/ d[a].priority > d[b].priority
    \/ d[a].priority = d[b].priority /\ d[a].created_at < d[b].created_at

Min2(a, b) == IF a <= b THEN a ELSE b

\* limit(max_concurrent_tasks - len(active_tasks)) of the select
PollLimit(active) == max_concurrent_tasks - Len(active)

\* The answers the select can give: the first `limit` PENDING rows in the
\* order above; rows that tie come in any order.
SelectPending(d, limit) ==
    LET n == Min2(limit, Cardinality(Pending(d)))
    IN {s \in [1..n -> Pending(d)] :
          /\ \A i, j \in 1..n : i < j => s[i] # s[j] /\ ~SortsBefore(d, s[j], s[i])
          /\ \A p \in Pending(d) \ {s[i] : i \in 1..n} :
                \A i \in 1..n : ~SortsBefore(d, p, s[i])}

\* faulty variant: an id is started whether or not it is tracked
NotTrackedUnchecked(active, t) == TRUE

\* `if task_id not in self.active_tasks`
NotTracked(active, t) == t \notin ActiveIds(active)

\* the snapshot of the row the executor is given
TaskData(d, t) ==
    [id |-> t, type |-> d[t].type, retry_count |-> d[t].retry_count,
     max_retries |-> d[t].max_retries]

\* The for loop of _process_pending_tasks from response.data[i] on: stop at
\* the cap, skip an id that is tracked, otherwise asyncio.create_task and
\* record the task.
RECURSIVE StartTasks(_, _, _, _)
StartTasks(d, sel, i, st) ==
    IF i > Len(sel) \/ Len(st.active_tasks) >= max_concurrent_tasks THEN st
    ELSE IF NotTracked(st.active_tasks, sel[i])
    THEN LET e == MinOf(FreeSlots(st.execs))
             frame == [task_data |-> TaskData(d, sel[i]), pc |-> "new",
                       step |-> 0, must_cancel |-> FALSE]
         IN StartTasks(d, sel, i + 1,
                CallSoon([st EXCEPT !.execs = (e :> frame) @@ @,
                                    !.active_tasks = Append(@, [id |-> sel[i], task |-> e])],
                         "exec", e))
    ELSE StartTasks(d, sel, i + 1, st)

\* _process_pending_tasks
ProcessPendingTasks(d, st, sel) ==
    IF Len(st.active_tasks) >= max_concurrent_tasks THEN st
    ELSE StartTasks(d, sel, 1, st)

(* ---------------------------------------------------- the retention sweep *)
\* faulty variant: the sweep forgets the age filter
CleanupMatchesAnyAge(row, cutoff_date) == row.status \in TerminalStatus

\* .in_("status", [completed, failed, cancelled]).lt("completed_at", cutoff);
\* a row without completed_at (NULL) matches no comparison.
CleanupMatches(row, cutoff_date) ==
    /\ row.status \in TerminalStatus
    /\ row.completed_at # NoTime
    /\ row.completed_at < cutoff_date

\* faulty variant: the sweep deletes one matching row per run
CleanupOneRow(d, clock) ==
    LET matching == {t \in DOMAIN d : d[t].status \in TerminalStatus
                                     /\ d[t].completed_at # NoTime
                                     /\ d[t].completed_at < clock - RetentionWindow}
    IN IF matching = {} THEN d
       ELSE [t \in DOMAIN d \ {CHOOSE x \in matching : \A y \in matching : x <= y} |-> d[t]]

\* _cleanup_completed_tasks: one delete statement
CleanupCompletedTasks(d, clock) ==
    LET cutoff_date == clock - RetentionWindow
        kept == {t \in DOMAIN d : ~CleanupMatches(d[t], cutoff_date)}
    IN [t \in kept |-> d[t]]

\* The processor's state as the running callback sees it: rdy is the queue
\* behind the callback, own counts the entries the callback has appended.
State(rdy) == [execs |-> execs, active_tasks |-> active_tasks, ready |-> rdy, own |-> 0]

\* One pass of _poll_loop, from the test of self.running to the sleep.
PollLoop(l) ==
    /\ ready # <<>> /\ IsHandle(Head(ready), "poll", l)
    /\ IF ~running
       THEN /\ loops' = Without(loops, l)
            /\ ready' = Tail(ready)
            /\ UNCHANGED <<db, execs, active_tasks>>
       ELSE /\ \E sel \in SelectPending(db, PollLimit(active_tasks)) :
                 LET st == ProcessPendingTasks(db, State(Tail(ready)), sel)
                 IN /\ Cardinality(FreeSlots(execs)) >= Len(sel)
                    /\ execs' = st.execs
                    /\ active_tasks' = st.active_tasks
                    /\ ready' = st.ready
            /\ db' = CleanupCompletedTasks(db, now)
            /\ loops' = [loops EXCEPT ![l] = "sleeping"]
    /\ returned' = "none"
    /\ UNCHANGED <<nextId, now, max_concurrent_tasks, running, attempts, accepted>>

\* asyncio.sleep(self.poll_interval) is over
WakeLoop(l) ==
    /\ l \in DOMAIN loops /\ loops[l] = "sleeping"
    /\ loops' = [loops EXCEPT ![l] = "ready"]
    /\ ready' = TimerFired(ready, "poll", l)
    /\ returned' = "none"
    /\ UNCHANGED <<db, nextId, now, max_concurrent_tasks, running, active_tasks, execs, attempts, accepted>>


(* ----------------------------------------------------------- the executor *)
\* a stored type that is not a value of the enum TaskType
UnknownType == "unknown"

\* `TaskType(task_data["type"])`: the conversion raises ValueError for a
\* string that is not a value of the enum
IsTaskType(type) == type \in TaskType

\* The start of _execute_task for a row whose type the conversion rejects:
\* the RUNNING write is done, _run_task_by_type is not reached.
OnStartUnknownType(d, task_data, clock) ==
    UpdateTaskStatus(d, task_data.id, RUNNING, [started_at |-> clock])

\* faulty variant: off by one in the retry test
ShouldRetryInclusive(retry_count, max_retries) == retry_count <= max_retries

\* `if retry_count < max_retries` of the except branch
ShouldRetry(retry_count, max_retries) == retry_count < max_retries

\* faulty variant: the requeue does not count the retry
OnExceptionUncounted(d, task_data, clock) ==
    IF task_data.retry_count < task_data.max_retries
    THEN Update(d, task_data.id, [status |-> PENDING, error_message |-> RetryMessage])
    ELSE Update(d, task_data.id,
            [status |-> FAILED, error_message |-> ErrorMessage, completed_at |-> clock])

\* except Exception: requeue or fail, from the snapshot's retry bookkeeping
OnException(d, task_data, clock) ==
    IF ShouldRetry(task_data.retry_count, task_data.max_retries)
    THEN UpdateTaskStatus(d, task_data.id, PENDING,
            [retry_count |-> task_data.retry_count + 1, error_message |-> RetryMessage])
    ELSE UpdateTaskStatus(d, task_data.id, FAILED,
            [error_message |-> ErrorMessage, completed_at |-> clock])

\* faulty variant: a cancelled executor requeues its task
OnCancelledRequeued(d, task_data, clock) ==
    Update(d, task_data.id, [status |-> PENDING, retry_count |-> task_data.retry_count + 1])

\* except asyncio.CancelledError
OnCancelled(d, task_data, clock) ==
    UpdateTaskStatus(d, task_data.id, CANCELLED,
        [error_message |-> TaskWasCancelled, completed_at |-> clock])

\* faulty variant: the completion write leaves the progress as it is
OnCompletedWithoutProgress(d, task_data, clock) ==
    Update(d, task_data.id, [status |-> COMPLETED, result |-> TRUE, completed_at |-> clock])

\* faulty variant: the completion write leaves out the result
OnCompletedWithoutResult(d, task_data, clock) ==
    Update(d, task_data.id, [status |-> COMPLETED, progress |-> 100, completed_at |-> clock])

\* the write after the handler returned
OnCompleted(d, task_data, clock) ==
    UpdateTaskStatus(d, task_data.id, COMPLETED,
        [progress |-> 100, result |-> TRUE, completed_at |-> clock])

\* One block of a handler: _update_task_progress, _add_task_log, then sleep.
HandlerBlock(d, task_data, k) ==
    AddTaskLog(UpdateTaskProgress(d, task_data.id, HandlerProgress(task_data.type)[k]),
               task_data.id, k)

\* The start of _execute_task up to the handler's first sleep: the RUNNING
\* write, the "Starting ..." log of _run_task_by_type, the first block.
OnStart(d, task_data, clock) ==
    HandlerBlock(
        AddTaskLog(UpdateTaskStatus(d, task_data.id, RUNNING, [started_at |-> clock]),
                   task_data.id, 0),
        task_data, 1)

\* finally: the id leaves active_tasks, whichever asyncio Task it maps to
Finally(active, t) == IF t \in ActiveIds(active) THEN Del(active, t) ELSE active

\* the executor's coroutine ends
Finish(e, t) ==
    /\ execs' = Without(execs, e)
    /\ active_tasks' = Finally(active_tasks, t)

\* What the table holds after the writes of one step that would leave it as
\* d: _update_task_status, _update_task_progress and _add_task_log catch the
\* exception of a failed store call, log it and return, so the step goes on
\* and the table is as before.
Stored(written, d) == IF written THEN d ELSE db

\* The event loop runs the step of the executor in slot e, up to its next
\* suspension.  raises: the unit of work raises in this step.  A step that
\* starts the task and raises before the first sleep writes the status twice;
\* the store shows the first write (pc "raised", the step still at the head of
\* the queue) before the step goes on to the second.  written: the store
\* carries out the step's writes.
ExecuteStep(e, raises, written) ==
    /\ ready # <<>> /\ IsHandle(Head(ready), "exec", e)
    /\ LET f == execs[e]
           td == f.task_data
           t == td.id
           n == Len(HandlerProgress(td.type))
       IN IF f.pc = "new"
          THEN IF f.must_cancel
               THEN \* CancelledError is thrown into a coroutine that has not
                    \* started: its body, the finally included, never runs
                    /\ ~raises
                    /\ execs' = Without(execs, e)
                    /\ ready' = Tail(ready)
                    /\ UNCHANGED <<db, active_tasks, attempts>>
               ELSE IF ~IsTaskType(td.type)
               THEN \* ValueError, raised inside the try before any suspension
                    /\ raises
                    /\ db' = Stored(written, OnStartUnknownType(db, td, now))
                    /\ execs' = [execs EXCEPT ![e].pc = "raised"]
                    /\ UNCHANGED <<ready, active_tasks, attempts>>
               ELSE /\ attempts[t] <= MaxRetriesArg + 1
                    /\ attempts' = [attempts EXCEPT ![t] = @ + 1]
                    /\ db' = Stored(written, OnStart(db, td, now))
                    /\ UNCHANGED active_tasks
                    /\ IF raises
                       THEN /\ execs' = [execs EXCEPT ![e].pc = "raised"]
                            /\ UNCHANGED ready
                       ELSE /\ execs' = [execs EXCEPT ![e].pc = "handler", ![e].step = 1]
                            /\ ready' = Tail(ready)
          ELSE /\ UNCHANGED attempts
               /\ ready' = Tail(ready)
               /\ IF f.pc = "raised"
                  THEN /\ raises
                       /\ db' = Stored(written, OnException(db, td, now))
                       /\ Finish(e, t)
                  ELSE IF f.must_cancel
                  THEN /\ ~raises
                       /\ db' = Stored(written, OnCancelled(db, td, now))
                       /\ Finish(e, t)
                  ELSE IF raises
                  THEN /\ db' = Stored(written, OnException(db, td, now))
                       /\ Finish(e, t)
                  ELSE IF f.step < n
                  THEN /\ db' = Stored(written, HandlerBlock(db, td, f.step + 1))
                       /\ execs' = [execs EXCEPT ![e].step = f.step + 1]
                       /\ UNCHANGED active_tasks
                  ELSE /\ db' = Stored(written, OnCompleted(db, td, now))
                       /\ Finish(e, t)
    /\ returned' = "none"
    /\ UNCHANGED <<nextId, now, max_concurrent_tasks, running, loops, accepted>>

\* the step of the executor in slot e with a store that answers
ExecuteTask(e, raises) == ExecuteStep(e, raises, TRUE)

\* _execute_task of utils/task_processor.py, whose other methods are those of
\* services/task_processor.py line for line.  Its unit of work _run_task has
\* no sleep and catches every exception of its body, returning a dict with
\* the error text, so the executor runs in one step: the RUNNING write, the
\* COMPLETED write with what _run_task returned, and the finally.  raises: the
\* body of _run_task raises.
ExecuteTaskUtils(e, raises) ==
    /\ ready # <<>> /\ IsHandle(Head(ready), "exec", e)
    /\ LET f == execs[e]
           td == f.task_data
           t == td.id
       IN /\ f.pc = "new"
          /\ ready' = Tail(ready)
          /\ IF f.must_cancel
             THEN /\ ~raises
                  /\ execs' = Without(execs, e)
                  /\ UNCHANGED <<db, active_tasks, attempts>>
             ELSE /\ attempts' = [attempts EXCEPT ![t] = @ + 1]
                  /\ db' = OnCompleted(
                              UpdateTaskStatus(db, t, RUNNING, [started_at |-> now]), td, now)
                  /\ Finish(e, t)
    /\ returned' = "none"
    /\ UNCHANGED <<nextId, now, max_concurrent_tasks, running, loops, accepted>>

\* The exceptions a unit of work can raise: a transient one (a timeout) and
\* a permanent one (permission denied).
TransientError == "TimeoutError"
PermanentError == "PermissionError"
Errors == {TransientError, PermanentError}

\* The step of the executor in slot e in which the unit of work raises
\* error.  `except Exception as e` catches every class alike and the branch
\* looks only at the retry bookkeeping, so the step is the one of
\* ExecuteTask whatever the class.
ExecuteTaskRaising(e, error) ==
    /\ error \in Errors
    /\ ExecuteTask(e, TRUE)

\* a handler's asyncio.sleep is over
WakeExec(e) ==
    /\ e \in DOMAIN execs
    /\ execs[e].pc = "handler"
    /\ ~InReady(ready, "exec", e)
    /\ ready' = TimerFired(ready, "exec", e)
    /\ returned' = "none"
    /\ UNCHANGED <<db, nextId, now, max_concurrent_tasks, running, active_tasks, execs, loops, attempts, accepted>>


(* ------------------------------------------------- calls to the processor *)
\* TaskProcessor.start
Start(nLoops) ==
    /\ CanRunCall
    /\ IF running
       THEN UNCHANGED <<running, loops, ready>>
       ELSE /\ DOMAIN loops # 1..nLoops
            /\ LET l == MinOf((1..nLoops) \ DOMAIN loops)
               IN /\ running' = TRUE
                  /\ loops' = (l :> "ready") @@ loops
                  /\ ready' = Append(ready, Handle("poll", l, FALSE))
    /\ returned' = "none"
    /\ UNCHANGED <<db, nextId, now, max_concurrent_tasks, active_tasks, execs, attempts, accepted>>

\* the loop of stop() over active_tasks.items(), from entry i on
RECURSIVE CancelAll(_, _, _)
CancelAll(active, i, st) ==
    IF i > Len(active) THEN st
    ELSE CancelAll(active, i + 1, TaskCancel(st, active[i].task))

\* TaskProcessor.stop
Stop ==
    /\ CanRunCall
    /\ LET st == CancelAll(active_tasks, 1, State(ready))
       IN /\ execs' = st.execs
          /\ ready' = st.ready
    /\ running' = FALSE
    /\ active_tasks' = <<>>
    /\ returned' = "none"
    /\ UNCHANGED <<db, nextId, now, max_concurrent_tasks, loops, attempts, accepted>>

\* faulty variant: the select does not filter on the user
OwnedRowAnyUser(d, t, user) == t \in DOMAIN d

\* select("id,status").eq("id", task_id).eq("user_id", user_id)
OwnedRow(d, t, user) == t \in DOMAIN d /\ d[t].user_id = user

\* faulty variant: only a completed task counts as finished
AlreadyFinishedOnlyCompleted(status) == status = COMPLETED

\* `if current_status in [completed, failed, cancelled]: return False`
AlreadyFinished(status) == status \in TerminalStatus

\* what cancel_task returns
CancelAccepted(d, t, user) == OwnedRow(d, t, user) /\ ~AlreadyFinished(d[t].status)

\* faulty variant: cancel_task only writes the store
CancelExecutorSkipped(st, t) == st

\* `if task_id in self.active_tasks: cancel the asyncio task and del the entry`
CancelExecutor(st, t) ==
    IF t \in ActiveIds(st.active_tasks)
    THEN [TaskCancel(st, ActiveTask(st.active_tasks, t)) EXCEPT !.active_tasks = Del(@, t)]
    ELSE st

\* TaskProcessor.cancel_task; written: the store carries out the CANCELLED
\* write (the select before it has been answered).
CancelCall(t, user, written) ==
    /\ CanRunCall
    /\ IF CancelAccepted(db, t, user)
       THEN LET st == CancelExecutor(State(ready), t)
            IN /\ execs' = st.execs
               /\ active_tasks' = st.active_tasks
               /\ ready' = st.ready
               /\ db' = Stored(written, UpdateTaskStatus(db, t, CANCELLED,
                           [error_message |-> CancelledByUser, completed_at |-> now]))
               /\ accepted' = [accepted EXCEPT ![t] = db[t].status]
       ELSE UNCHANGED <<db, execs, active_tasks, ready, accepted>>
    /\ returned' = IF CancelAccepted(db, t, user) THEN "true" ELSE "false"
    /\ UNCHANGED <<nextId, now, max_concurrent_tasks, running, loops, attempts>>

\* TaskProcessor.cancel_task with a store that answers
CancelTask(t, user) == CancelCall(t, user, TRUE)

\* TaskStopRequest.reason: the default, and a reason the requester writes
Reasons == {"User requested cancellation", "duplicate of another task"}

\* cancel_task of api/tasks.py: the processor's cancel_task is called with the
\* task id and the caller's id; stop_request.reason goes into the response
\* only.
CancelTaskRequest(t, user, reason) == reason \in Reasons /\ CancelTask(t, user)

\* The process ends, at any point, and a new one imports the module: its
\* coroutines are gone with the event loop, the module-level TaskProcessor()
\* is constructed anew, and the table is what it was.
Restart ==
    /\ running' = FALSE
    /\ active_tasks' = <<>>
    /\ execs' = [e \in {} |-> 0]
    /\ loops' = [l \in {} |-> 0]
    /\ ready' = <<>>
    /\ returned' = "none"
    /\ UNCHANGED <<db, nextId, now, max_concurrent_tasks, attempts, accepted>>

(* ------------------------------------------------------- the environment *)
\* create_task of api/tasks.py inserts a row.  created_at is the time of the
\* insert; rows are inserted one after the other, so the model writes the
\* row's rank in the order of creation.
CreateTask(user, type, priority, max_retries) ==
    /\ nextId' = nextId + 1
    /\ db' = (nextId + 1 :> NewTask(user, type, priority, max_retries, nextId + 1)) @@ db
    /\ returned' = "none"
    /\ UNCHANGED <<now, max_concurrent_tasks, running, active_tasks, execs, loops, ready, attempts, accepted>>

\* the latest created_at of the table, as a creation rank
LatestCreated(d) ==
    IF DOMAIN d = {} THEN 0
    ELSE LET t == CHOOSE t \in DOMAIN d : \A u \in DOMAIN d : d[u].created_at <= d[t].created_at
         IN d[t].created_at

\* the processor holds nothing of task id t
Unreferenced(t) ==
    /\ t \notin ActiveIds(active_tasks)
    /\ \A e \in DOMAIN execs : execs[e].task_data.id # t

\* The place of row t in the order of created_at.
CreatedRank(d, t) == 1 + Cardinality({u \in DOMAIN d : d[u].created_at < d[t].created_at})

\* The table with created_at written as the place in that order: created_at
\* is read only to order rows, so that the clock of creations need not grow.
RankedByCreation(d) == [t \in DOMAIN d |-> [d[t] EXCEPT !.created_at = CreatedRank(d, t)]]

\* create_task once rows have been deleted.  The new row gets a new uuid;
\* the model writes it with the number t of a deleted row that nothing
\* refers to any more, and with a created_at after those of all rows.
RecreateTask(t, user, type, priority, max_retries) ==
    /\ t \in 1..nextId /\ t \notin DOMAIN db /\ Unreferenced(t)
    /\ LET d == RankedByCreation(db)
       IN db' = (t :> NewTask(user, type, priority, max_retries, LatestCreated(d) + 1)) @@ d
    /\ attempts' = [attempts EXCEPT ![t] = 0]
    /\ accepted' = [accepted EXCEPT ![t] = "none"]
    /\ returned' = "none"
    /\ UNCHANGED <<nextId, now, max_concurrent_tasks, running, active_tasks, execs, loops, ready>>

\* delete_task of api/tasks.py: the row with this id that the caller's
\* client can see is deleted, whatever its status; the processor is not told.
DeleteTask(t, user) ==
    /\ CanRunCall
    /\ OwnedRow(db, t, user)
    /\ db' = Without(db, t)
    /\ returned' = "none"
    /\ UNCHANGED <<nextId, now, max_concurrent_tasks, running, active_tasks, execs, loops, ready, attempts, accepted>>

\* The bodies of the update requests the model sends: TaskUpdate with the
\* fields that are not None.
TaskUpdates ==
    {[status |-> st] : st \in {PENDING, COMPLETED}}
        \cup {[progress |-> 0], [result |-> TRUE], [error_message |-> ErrorMessage],
              [logs |-> <<>>]}

\* update_task of api/tasks.py: 404 unless the caller's client can see the
\* row; then the fields of the body that are not None are written to it.
UpdateTask(t, user, task_update) ==
    /\ CanRunCall
    /\ OwnedRow(db, t, user)
    /\ db' = Update(db, t, task_update)
    /\ returned' = "none"
    /\ UNCHANGED <<nextId, now, max_concurrent_tasks, running, active_tasks, execs, loops, ready, attempts, accepted>>

\* A row of the table that create_task did not write: the table is shared
\* with other writers, and the executor converts the stored type itself.  The
\* row is as create_task's but for its type.
InsertRow(n, types) ==
    \E u \in Owners, ty \in types, m \in 0..MaxRetriesArg :
        nextId < n /\ CreateTask(u, ty, 1, m)

\* the clock advances
Tick ==
    /\ now < MaxTime
    /\ now' = now + 1
    /\ returned' = "none"
    /\ UNCHANGED <<db, nextId, max_concurrent_tasks, running, active_tasks, execs, loops, ready, attempts, accepted>>

(* ------------------------------------------------------ the specification *)
NoRows == [t \in {} |-> 0]

\* TaskProcessor() with max_concurrent_tasks set to cap, and an empty table
Constructed(cap) ==
    /\ db = NoRows
    /\ nextId = 0
    /\ now = 0
    /\ max_concurrent_tasks = cap
    /\ running = FALSE
    /\ active_tasks = <<>>
    /\ execs = NoRows
    /\ loops = NoRows
    /\ ready = <<>>
    /\ attempts = [t \in Ids |-> 0]
    /\ accepted = [t \in Ids |-> "none"]
    /\ returned = "none"

Init == Constructed(MaxConcurrentTasks)

\* the TaskProcessor with at most nLoops poll loops alive
Processor(nLoops) ==
    \/ Start(nLoops)
    \/ Stop
    \/ \E t \in Ids, u \in Users : CancelTask(t, u)
    \/ \E l \in 1..nLoops : PollLoop(l)
    \/ \E l \in 1..nLoops : WakeLoop(l)
    \/ \E e \in Slots, raises \in BOOLEAN : ExecuteTask(e, raises)
    \/ \E e \in Slots : WakeExec(e)

\* create_task called at most n times, max_retries drawn from 0..maxRetries
Create(n, maxRetries) ==
    \E u \in Owners, ty \in CreatedTypes, m \in 0..maxRetries :
        nextId < n /\ CreateTask(u, ty, 1, m)

\* The scheduler with retries, cancellation, stop and restart; the clock stands.
Next ==
    \/ Create(NumTasks, MaxRetriesArg)
    \/ Processor(MaxLoops)

Spec == Init /\ [][Next]_vars

\* No poll of the processor has had an effect yet: it is not running, no poll
\* loop is left and no handler has been invoked.
NotPolledYet ==
    ~running /\ loops = NoRows /\ \A t \in Ids : attempts[t] = 0

\* create_task with a priority drawn from 1..MaxPriorityArg.  A processor
\* that runs one task at a time gets its tasks before it polls.
CreatePrioritised(n) ==
    \E u \in Owners, ty \in CreatedTypes, p \in 1..MaxPriorityArg :
        /\ nextId < n
        /\ max_concurrent_tasks = 1 => NotPolledYet
        /\ CreateTask(u, ty, p, 0)

\* Tasks of different priorities, for a processor that runs one task at a
\* time and for one that runs MaxConcurrentTasks.
InitPrio == \E cap \in 1..MaxConcurrentTasks : Constructed(cap)

NextPrio ==
    \/ CreatePrioritised(NumTasksCap)
    \/ Processor(1)

SpecPrio == InitPrio /\ [][NextPrio]_vars

\* A processor that runs one task at a time and is never stopped, with
\* owners who delete their completed tasks and go on creating tasks.  The
\* event loop runs every callback that is ready and every timer expires.
InitOne == Constructed(1)

CreateOrRecreate(n) ==
    \E u \in Owners, ty \in CreatedTypes, p \in 1..MaxPriorityArg :
        \/ nextId < n /\ CreateTask(u, ty, p, 0)
        \/ \E t \in 1..n : RecreateTask(t, u, ty, p, 0)

DeleteCompleted ==
    \E t \in Ids, u \in Owners :
        t \in DOMAIN db /\ db[t].status = COMPLETED /\ DeleteTask(t, u)

Step(e) == \E raises \in BOOLEAN : ExecuteTask(e, raises)

NextStarve ==
    \/ CreateOrRecreate(NumTasks)
    \/ DeleteCompleted
    \/ Start(1)
    \/ PollLoop(1)
    \/ WakeLoop(1)
    \/ \E e \in Slots : Step(e)
    \/ \E e \in Slots : WakeExec(e)

SpecStarve ==
    /\ InitOne /\ [][NextStarve]_vars
    /\ WF_vars(Start(1) /\ ~running)
    /\ WF_vars(PollLoop(1)) /\ WF_vars(WakeLoop(1))
    /\ \A e \in Slots : WF_vars(Step(e)) /\ WF_vars(WakeExec(e))

\* One poll loop that is not stopped, and handlers that raise errors of
\* both classes.
NextErr ==
    \/ Create(NumTasks, MaxRetriesArg)
    \/ Start(1)
    \/ PollLoop(1)
    \/ WakeLoop(1)
    \/ \E e \in Slots : ExecuteTask(e, FALSE)
    \/ \E e \in Slots, error \in Errors : ExecuteTaskRaising(e, error)
    \/ \E e \in Slots : WakeExec(e)

SpecErr == Init /\ [][NextErr]_vars

\* One task, one poll loop that is not stopped, and a store whose writes can
\* fail.
NextStore ==
    \/ Create(1, 0)
    \/ Start(1)
    \/ PollLoop(1)
    \/ WakeLoop(1)
    \/ \E e \in Slots, raises, written \in BOOLEAN : ExecuteStep(e, raises, written)
    \/ \E e \in Slots : WakeExec(e)
    \/ \E t \in Ids, u \in Owners, written \in BOOLEAN : CancelCall(t, u, written)

SpecStore == Init /\ [][NextStore]_vars

\* One task, the processor with one poll loop, the clock, and the update and
\* delete endpoints.
NextApi ==
    \/ Create(1, 0)
    \/ Tick
    \/ Start(1)
    \/ PollLoop(1)
    \/ WakeLoop(1)
    \/ \E e \in Slots, raises \in BOOLEAN : ExecuteTask(e, raises)
    \/ \E e \in Slots : WakeExec(e)
    \/ \E t \in Ids, u \in Users, task_update \in TaskUpdates : UpdateTask(t, u, task_update)
    \/ \E t \in Ids, u \in Users : DeleteTask(t, u)

SpecApi == Init /\ [][NextApi]_vars

\* The processor with one poll loop, and the cancel endpoint.
NextCancel ==
    \/ Create(NumTasks, 0)
    \/ Start(1)
    \/ PollLoop(1)
    \/ WakeLoop(1)
    \/ \E e \in Slots, raises \in BOOLEAN : ExecuteTask(e, raises)
    \/ \E e \in Slots : WakeExec(e)
    \/ \E t \in Ids, u \in Users, reason \in Reasons : CancelTaskRequest(t, u, reason)

SpecCancel == Init /\ [][NextCancel]_vars

\* Rows of a known and of an unknown type, and the processor with one poll
\* loop.
NextType ==
    \/ InsertRow(NumTasks, CreatedTypes \cup {UnknownType})
    \/ Start(1)
    \/ PollLoop(1)
    \/ WakeLoop(1)
    \/ \E e \in Slots, raises \in BOOLEAN : ExecuteTask(e, raises)
    \/ \E e \in Slots : WakeExec(e)

SpecType == Init /\ [][NextType]_vars

\* The processor of utils/task_processor.py.
NextUtils ==
    \/ Create(NumTasks, MaxRetriesArg)
    \/ Start(1)
    \/ Stop
    \/ \E t \in Ids, u \in Users : CancelTask(t, u)
    \/ PollLoop(1)
    \/ WakeLoop(1)
    \/ \E e \in Slots, raises \in BOOLEAN : ExecuteTaskUtils(e, raises)

SpecUtils == Init /\ [][NextUtils]_vars

\* The processor with one poll loop, in a process that can be restarted.
NextRestart ==
    \/ Create(NumTasks, 0)
    \/ Processor(1)
    \/ Restart

SpecRestart == Init /\ [][NextRestart]_vars

\* More tasks than the concurrency cap.
NextCap ==
    \/ Create(NumTasksCap, 0)
    \/ Processor(MaxLoops)

SpecCap == Init /\ [][NextCap]_vars

\* The clock runs, so that the retention sweep finds rows to delete.
NextSweep ==
    \/ Create(NumTasks, 0)
    \/ Tick
    \/ Processor(1)

SpecSweep == Init /\ [][NextSweep]_vars


(* ================================================================ claims *)
Rows == DOMAIN db
Executors == DOMAIN execs
\* executors whose body has started (it has written RUNNING) and not ended
Begun == {e \in Executors : execs[e].pc # "new"}
\* executors the dispatcher has created and that have not finished, without
\* those cancelled before their first step, whose body never runs
Started == {e \in Executors : ~(execs[e].pc = "new" /\ execs[e].must_cancel)}
ExecutorsOf(t) == {e \in Executors : execs[e].task_data.id = t}

StateMachineEdges ==
    {<<PENDING, RUNNING>>, <<RUNNING, COMPLETED>>, <<RUNNING, PENDING>>,
     <<RUNNING, FAILED>>, <<PENDING, CANCELLED>>, <<RUNNING, CANCELLED>>}

\* C1: every change of a row's stored status follows an edge of the state
\* machine (PENDING->RUNNING, RUNNING->COMPLETED, RUNNING->PENDING,
\* RUNNING->FAILED, PENDING->CANCELLED, RUNNING->CANCELLED); a COMPLETED,
\* FAILED or CANCELLED row never changes status.
C1_StatusFollowsEdges ==
    [][\A t \in Rows :
          t \in DOMAIN db' /\ db'[t].status # db[t].status
             => <<db[t].status, db'[t].status>> \in StateMachineEdges]_vars

\* C1 witness: a task was requeued by a retry and cancelled while running again
\* after it, and another reached a terminal status through the executor.
C1_Witness ==
    \E t, u \in Rows :
        /\ t # u
        /\ db[t].status = CANCELLED /\ db[t].retry_count > 0 /\ accepted[t] = RUNNING
        /\ db[u].status \in {COMPLETED, FAILED}


NumRunning == Cardinality({t \in Rows : db[t].status = RUNNING})

Live(t) == Started \cap ExecutorsOf(t)

\* C3: no two executors run the same task id, and a task's handler is invoked
\* at most once per PENDING episode (the first, and one after every requeue).
C3_OneExecutorPerTask ==
    \A t \in Ids :
        /\ Cardinality(Live(t)) <= 1
        /\ t \in Rows => attempts[t] <= db[t].retry_count + 1

\* C3 witness: a task is still stored PENDING while its executor, created by
\* one poll loop, has not run yet, and a second poll loop is about to select
\* the same row with room under the cap.
C3_Witness ==
    \E t \in Rows :
        /\ db[t].status = PENDING /\ t \in ActiveIds(active_tasks)
        /\ running /\ Len(active_tasks) < max_concurrent_tasks
        /\ ready # <<>> /\ Head(ready).kind = "poll"

\* C4: retry_count <= max_retries for every row, in every reachable state.
C4_RetryCountBounded ==
    \A t \in Rows : db[t].retry_count <= db[t].max_retries

\* C4 witness: a task with a positive budget used it up and failed.
C4_Witness ==
    \E t \in Rows :
        db[t].max_retries > 0 /\ db[t].retry_count = db[t].max_retries /\ db[t].status = FAILED

\* C5: a task whose runs all fail is run max_retries + 1 times: every
\* RUNNING->PENDING requeue adds one to retry_count and nothing else changes
\* it, the number of runs never exceeds max_retries + 1, and a FAILED task has
\* made exactly max_retries + 1 runs and max_retries requeues.
C5_ExactlyNPlusOneRuns ==
    /\ [](\A t \in Rows :
            /\ attempts[t] <= db[t].max_retries + 1
            /\ db[t].status = FAILED =>
                  attempts[t] = db[t].max_retries + 1 /\ db[t].retry_count = db[t].max_retries)
    /\ [][\A t \in Rows : t \in DOMAIN db' =>
            db'[t].retry_count =
                IF db[t].status = RUNNING /\ db'[t].status = PENDING
                THEN db[t].retry_count + 1 ELSE db[t].retry_count]_vars

\* C5 witness: a task with max_retries = MaxRetriesArg failed after
\* MaxRetriesArg + 1 runs.
C5_Witness ==
    \E t \in Rows :
        /\ db[t].status = FAILED /\ db[t].max_retries = MaxRetriesArg
        /\ attempts[t] = MaxRetriesArg + 1


\* the cases in which cancel_task must refuse
NotCancellable(t, user) ==
    IF t \notin Rows THEN TRUE
    ELSE db[t].user_id # user \/ db[t].status \in {COMPLETED, FAILED, CANCELLED}

\* C6: cancel_task for a row that does not exist, belongs to another user or
\* is COMPLETED, FAILED or CANCELLED returns False and leaves the row, the
\* other rows, active_tasks and the executors as they were; the same call
\* made again is refused again.
C6_RefusedCancelChangesNothing ==
    [][\A t \in Ids, user \in Users :
          CancelTask(t, user) /\ NotCancellable(t, user)
             => /\ returned' = "false"
                /\ UNCHANGED <<db, active_tasks, execs, ready, running>>
                /\ ~CancelAccepted(db', t, user)]_vars

\* C6 witness: cancel_task has just returned False while a finished task, a
\* task in flight and its executor exist.
C6_Witness ==
    /\ returned = "false"
    /\ \E t \in Rows : db[t].status \in TerminalStatus
    /\ \E t \in Rows : db[t].status = RUNNING /\ t \in ActiveIds(active_tasks)

\* C7: a task whose cancellation was accepted while it was stored PENDING is
\* CANCELLED from then on, and no executor of it ever starts its body, also
\* when the dispatcher had already created one.
C7_PendingCancelNeverRuns ==
    \A t \in Ids : accepted[t] = PENDING =>
        /\ t \in Rows => db[t].status = CANCELLED
        /\ \A e \in ExecutorsOf(t) : execs[e].pc = "new" /\ execs[e].must_cancel

\* C7 witness: the cancellation of a PENDING task was accepted after the
\* dispatcher had created the task's executor, which has not run yet.
C7_Witness ==
    \E t \in Rows : accepted[t] = PENDING /\ ExecutorsOf(t) # {}

\* C8 (as claimed): once cancel_task has been accepted for a RUNNING task and
\* CANCELLED is stored, no later write changes the task's row.
C8_NoWriteAfterCancel ==
    [][\A t \in Rows : accepted[t] = RUNNING /\ t \in DOMAIN db' => db'[t] = db[t]]_vars

\* C9: the sweep removes a row only if its status is COMPLETED, FAILED or
\* CANCELLED and its completed_at is older than the retention window, at
\* whatever point of the poll loops and the executors it runs.
C9_SweepDeletesOnlyOldFinished ==
    [][\A t \in Rows : t \notin DOMAIN db' =>
          /\ db[t].status \in {COMPLETED, FAILED, CANCELLED}
          /\ db[t].completed_at # NoTime
          /\ db[t].completed_at < now - RetentionWindow]_vars

\* C9 witness: the sweep has deleted a row and kept a finished row that is
\* not older than the window.
C9_Witness ==
    /\ Cardinality(Rows) < nextId
    /\ \E t \in Rows : db[t].status \in TerminalStatus
                       /\ db[t].completed_at >= now - RetentionWindow

\* what a run of the sweep can leave: the delete is one statement, so a run
\* that fails has deleted nothing
SweepOutcomes(d, clock) == {d, CleanupCompletedTasks(d, clock)}

\* C10: with the same cutoff and nothing in between, a second run of the
\* sweep leaves the rows that one run leaves, whether or not the first run
\* failed.
C10_SweepIdempotent ==
    \A first \in SweepOutcomes(db, now) :
        CleanupCompletedTasks(first, now) = CleanupCompletedTasks(db, now)

\* C10 witness: the sweep has something to delete and something to keep.
C10_Witness ==
    /\ \E t \in Rows : CleanupMatches(db[t], now - RetentionWindow)
    /\ \E t \in Rows : ~CleanupMatches(db[t], now - RetentionWindow)


\* the ids for which the step has created an executor
StartedNow == ActiveIds(active_tasks') \ ActiveIds(active_tasks)

\* C11: whenever a poll starts a task, no task that was PENDING in the poll's
\* snapshot and has no executor after the poll sorts before it (higher
\* priority, or the same priority and an earlier created_at); and a processor
\* with max_concurrent_tasks = 1 whose tasks were all created before its
\* first poll completes them in descending priority: no task completes after
\* a task of lower priority.
C11_StartsInPriorityOrder ==
    [][/\ \A t \in StartedNow :
             \A u \in Pending(db) \ ActiveIds(active_tasks') : ~SortsBefore(db, u, t)
       /\ max_concurrent_tasks = 1 =>
             \A t \in Rows :
                 (t \in DOMAIN db' /\ db[t].status # COMPLETED /\ db'[t].status = COMPLETED)
                     => \A u \in Rows \ {t} :
                           db[u].status = COMPLETED => db[u].priority >= db[t].priority]_vars

\* C11 witness: a processor that runs one task at a time has completed two
\* of its three tasks, and the one created first has the lower priority.
C11_Witness ==
    /\ max_concurrent_tasks = 1
    /\ Cardinality(Rows) = NumTasksCap
    /\ \E t, u \in Rows :
           /\ db[t].status = COMPLETED /\ db[u].status = COMPLETED
           /\ db[t].created_at < db[u].created_at /\ db[t].priority < db[u].priority


\* C12 (as claimed): while the dispatcher keeps polling and handlers
\* terminate, every PENDING task is eventually started (or leaves PENDING
\* otherwise), also when tasks of higher priority keep being created.
C12_EveryPendingTaskStarts ==
    \A t \in Ids :
        (t \in Rows /\ db[t].status = PENDING)
            ~> (t \notin Rows \/ db[t].status # PENDING)


\* C13 (as claimed): within one RUNNING episode, from the write of RUNNING
\* on, the stored progress never decreases.  The write of RUNNING leaves
\* progress as it is stored, so the first value of an episode is the one of
\* the state before the executor's first step; the later values are those
\* of the states in which the task is RUNNING.
C13_ProgressNeverDecreasesWhileRunning ==
    [][\A t \in Rows :
          (t \in DOMAIN db' /\ db'[t].status = RUNNING)
              => db'[t].progress >= db[t].progress]_vars


\* C14: a row's result is set if and only if its status is COMPLETED: no
\* PENDING, RUNNING, FAILED or CANCELLED row has a result, every COMPLETED
\* row has one.
C14_ResultIffCompleted ==
    \A t \in Rows : db[t].result <=> db[t].status = COMPLETED

\* C14 witness: a task completed after a retry, and another was cancelled
\* while it was running.
C14_Witness ==
    \E t, u \in Rows :
        /\ db[t].status = COMPLETED /\ db[t].retry_count > 0 /\ db[t].result
        /\ db[u].status = CANCELLED /\ accepted[u] = RUNNING /\ ExecutorsOf(u) = {}


\* C15 (as claimed): a row's error_message is set if and only if its status
\* is FAILED or CANCELLED; a task that was requeued by a retry and is PENDING
\* or RUNNING again, or has completed, has none.
C15_ErrorMessageIffFailedOrCancelled ==
    \A t \in Rows :
        db[t].error_message # NoMessage <=> db[t].status \in {FAILED, CANCELLED}


\* the step ends the executor in slot e
Ends(e) == e \in DOMAIN execs /\ e \notin DOMAIN execs'

\* C16 (as claimed): when the handler fails with a non-retryable error, the
\* executor's write for the failure stores FAILED and leaves retry_count as
\* it is, also when retry_count < max_retries.
C16_PermanentErrorFailsAtOnce ==
    [][\A e \in Executors :
          (ExecuteTaskRaising(e, PermanentError) /\ Ends(e))
              => LET t == execs[e].task_data.id
                 IN /\ db'[t].status = FAILED
                    /\ db'[t].retry_count = db[t].retry_count]_vars


\* C17 (as claimed): a failed store write is not taken for a success: the
\* step in which an executor invokes the handler leaves the task stored
\* RUNNING, and a cancel_task call that returns True leaves it stored
\* CANCELLED.
C17_FailedWriteIsNotSuccess ==
    [][/\ \A t \in Rows : attempts'[t] > attempts[t] => db'[t].status = RUNNING
       /\ \A t \in Ids, u \in Users, written \in BOOLEAN :
             (CancelCall(t, u, written) /\ returned' = "true")
                 => db'[t].status = CANCELLED]_vars


\* the fields of a row that TaskUpdate carries
UpdatableFields == {"status", "progress", "result", "error_message", "logs"}

\* C18 (as claimed): the update endpoint is not a public mutation surface: a
\* request of the task's owner through it leaves the task's status, progress,
\* result, error_message and logs as they were.
C18_OwnerUpdateChangesNothing ==
    [][\A t \in Rows, task_update \in TaskUpdates :
          UpdateTask(t, db[t].user_id, task_update)
              => \A f \in UpdatableFields : db'[t][f] = db[t][f]]_vars


\* C19 (as claimed): a row leaves the store only when its task is finished
\* and older than the retention window, whatever operation removes it, the
\* delete endpoint included; and no executor is left for a task whose row is
\* gone.
C19_OnlyOldFinishedRowsLeave ==
    [][/\ \A t \in Rows : t \notin DOMAIN db' =>
              /\ db[t].status \in TerminalStatus
              /\ db[t].completed_at # NoTime
              /\ db[t].completed_at < now - RetentionWindow
       /\ \A e \in DOMAIN execs' : execs'[e].task_data.id \in DOMAIN db']_vars


\* C20 (as claimed): once a cancellation was accepted and no executor of the
\* task is left, the error_message of the cancelled task is a reason given in
\* a cancel request, whether the task was PENDING or RUNNING when the request
\* came.
C20_CancelledMessageIsRequestersReason ==
    \A t \in Rows :
        (accepted[t] # "none" /\ db[t].status = CANCELLED /\ ExecutorsOf(t) = {})
            => db[t].error_message \in Reasons


\* the step requeues task t: its stored status goes from RUNNING to PENDING
Requeued(t) == t \in Rows /\ t \in DOMAIN db' /\ db[t].status = RUNNING /\ db'[t].status = PENDING

\* C21 (as claimed): the write that requeues a failed task adds one to
\* retry_count and sets progress to 0, so that every PENDING task has
\* progress 0.
C21_RequeueCountsAndResetsProgress ==
    [][/\ \A t \in Rows : Requeued(t) =>
              /\ db'[t].retry_count = db[t].retry_count + 1
              /\ db'[t].progress = 0
       /\ \A t \in DOMAIN db' : db'[t].status = PENDING => db'[t].progress = 0]_vars


\* later is earlier with n more entries at its end
Appended(earlier, later, n) ==
    /\ Len(later) = Len(earlier) + n
    /\ SubSeq(later, 1, Len(earlier)) = earlier

\* C22 (as claimed): the write that requeues a failed task appends one entry,
\* the failure reason, to the task's logs.
C22_RequeueAppendsFailureToLogs ==
    [][\A t \in Rows : Requeued(t) => Appended(db[t].logs, db'[t].logs, 1)]_vars


\* C23 (as claimed): a stored task whose type is not a value of TaskType
\* does not go through the retry path and is not reported as a failed
\* handler: its retry_count stays, it is not requeued and it is not stored
\* FAILED.
C23_UnknownTypeIsNotATaskFailure ==
    [][\A t \in Rows :
          (t \in DOMAIN db' /\ ~IsTaskType(db[t].type)) =>
              /\ db'[t].retry_count = db[t].retry_count
              /\ ~Requeued(t)
              /\ db'[t].status # FAILED]_vars


\* C24: every COMPLETED task has progress 100, a result and completed_at;
\* they are written by the step that stores COMPLETED, and before that step
\* the task was stored RUNNING with started_at set.
C24_CompletedIsWrittenWhole ==
    [][\A t \in DOMAIN db' :
          db'[t].status = COMPLETED =>
              /\ db'[t].progress = 100 /\ db'[t].result /\ db'[t].completed_at # NoTime
              /\ t \in Rows
              /\ \/ db[t].status = COMPLETED /\ db[t] = db'[t]
                 \/ db[t].status = RUNNING /\ db[t].started_at # NoTime
                      /\ db[t].progress < 100 /\ ~db[t].result]_vars

\* C24 witness: a task completed on its second attempt, after a requeue
\* that left the progress of the failed attempt.
C24_Witness ==
    \E t \in Rows : db[t].status = COMPLETED /\ db[t].retry_count = 1 /\ db[t].progress = 100


\* C25 (as claimed): when the unit of work of a task raises, the executor of
\* either implementation ends with the task stored PENDING or FAILED, not
\* COMPLETED and not RUNNING, and with the task id out of active_tasks.
C25_FailureBecomesPendingOrFailed ==
    [][\A e \in Executors :
          ((ExecuteTask(e, TRUE) \/ ExecuteTaskUtils(e, TRUE)) /\ Ends(e))
              => LET t == execs[e].task_data.id
                 IN /\ t \in DOMAIN db' => db'[t].status \in {PENDING, FAILED}
                    /\ t \notin ActiveIds(active_tasks')]_vars


\* earlier is a prefix of later
IsPrefix(earlier, later) ==
    Len(earlier) <= Len(later) /\ SubSeq(later, 1, Len(earlier)) = earlier

\* C26 (as claimed): the logs of a task are append-only: no step, of the
\* executor, of cancel_task or of an update request, leaves logs of which
\* the logs before the step are not a prefix.
C26_LogsAppendOnly ==
    [][\A t \in Rows : t \in DOMAIN db' => IsPrefix(db[t].logs, db'[t].logs)]_vars


\* the poll loops that go on polling: every _poll_loop coroutine that is
\* alive while self.running is True passes its `while self.running` test
ActiveLoops == IF running THEN DOMAIN loops ELSE {}

\* C27 (as claimed): whatever start() and stop() calls were made, at most
\* one poll loop is active.
C27_AtMostOnePollLoop == Cardinality(ActiveLoops) <= 1


\* the executors of task t that have begun their body and are cancelled
CancelledInFlight(t) ==
    {e \in ExecutorsOf(t) : execs[e].pc # "new" /\ execs[e].must_cancel}

\* C28: stop() empties active_tasks and cancels every executor in it; every
\* task stored RUNNING at that moment has a cancelled executor; until that
\* executor ends, a write to the task stores CANCELLED with completed_at and
\* leaves retry_count (the task is not requeued); and the executor ends by
\* storing CANCELLED with 'Task was cancelled' and completed_at.
C28_StopCancelsRunningTasks ==
    [][/\ Stop =>
              /\ active_tasks' = <<>>
              /\ \A i \in 1..Len(active_tasks) :
                    LET e == active_tasks[i].task
                    IN e \in DOMAIN execs => e \in DOMAIN execs' /\ execs'[e].must_cancel
              /\ \A t \in Rows : db[t].status = RUNNING =>
                    \E e \in ExecutorsOf(t) : execs'[e].pc # "new" /\ execs'[e].must_cancel
       /\ \A t \in Rows :
             (CancelledInFlight(t) # {} /\ t \in DOMAIN db' /\ db'[t] # db[t])
                 => /\ db'[t].status = CANCELLED
                    /\ db'[t].completed_at # NoTime
                    /\ db'[t].retry_count = db[t].retry_count
       /\ \A t \in Rows :
             (t \in DOMAIN db' /\ \E e \in CancelledInFlight(t) : Ends(e))
                 => db'[t].error_message = TaskWasCancelled]_vars

\* C28 witness: the processor is stopped and a task that no cancel_task call
\* was accepted for, and that had made progress, is stored CANCELLED by its
\* executor, which has ended.
C28_Witness ==
    /\ ~running /\ active_tasks = <<>>
    /\ \E t \in Rows :
          /\ db[t].status = CANCELLED /\ db[t].error_message = TaskWasCancelled
          /\ accepted[t] = "none" /\ db[t].progress > 0 /\ ExecutorsOf(t) = {}


\* C29 (as claimed): a task stored RUNNING has an executor, so that none is
\* stranded in RUNNING, also after cancel_task, stop(), stop() and start(),
\* and a restart of the process.
C29_RunningTaskHasExecutor ==
    \A t \in Rows : db[t].status = RUNNING => ExecutorsOf(t) # {}


\* C30 (as claimed): while the poll loop keeps polling, store writes succeed
\* and every handler invocation returns or raises, every task of the table
\* reaches COMPLETED, FAILED or CANCELLED (a row deleted by its owner after
\* it completed has reached it).
C30_EveryTaskReachesTerminal ==
    \A t \in Ids :
        (t \in Rows) ~> (t \notin Rows \/ db[t].status \in TerminalStatus)

====
